---- MODULE Spec2Model ----
(***************************************************************************)
(* pfb_fhir.simplifier.ContextSimplifier: the simplification of a          *)
(* TransformerContext's flattened properties.                              *)
(*                                                                         *)
(* Strings are sequences of one-character strings, so that the str         *)
(* methods the code uses (split, in, startswith, endswith, replace) are    *)
(* modelled by what they do on characters.  Property objects live in a     *)
(* heap (a sequence indexed by object id): _single_item_lists renames      *)
(* flattened_key in place, deepcopy allocates a new object.                *)
(***************************************************************************)
EXTENDS Naturals, Sequences, FiniteSets

VARIABLES
    pc,                    \* position in simplify
    heap,                  \* Property objects: [flattened_key, value, id]
    context_properties,    \* context.properties: ordered <<key, object>> entries
    simplified_properties, \* ordered dict root id -> list of objects
    i,                     \* loop variable of `for i in range(3)`
    error,                 \* exception that ended simplify ("" if none)
    entry,                 \* heap and context.properties when simplify was called
    hist                   \* simplified_properties and heap left by each pass

vars == <<pc, heap, context_properties, simplified_properties, i, error, entry, hist>>

-----------------------------------------------------------------------------
(* str                                                                     *)

Dot == "."

Slash == "/"

\* None, where the code holds a Property or None
None == 0

RECURSIVE str(_)
\* f"{n}" for a non-negative int
str(n) ==
    LET digit(d) == <<"0", "1", "2", "3", "4", "5", "6", "7", "8", "9">>[d + 1]
    IN  IF n < 10 THEN <<digit(n)>> ELSE str(n \div 10) \o <<digit(n % 10)>>

\* s.startswith(p)
startswith(s, p) == Len(p) <= Len(s) /\ SubSeq(s, 1, Len(p)) = p

\* s.endswith(p)
endswith(s, p) == Len(p) <= Len(s) /\ SubSeq(s, Len(s) - Len(p) + 1, Len(s)) = p

\* s.find(p), 1-based; 0 when p does not occur in s
find(s, p) ==
    LET at == {n \in 1..(Len(s) + 1) : n + Len(p) - 1 <= Len(s) /\ SubSeq(s, n, n + Len(p) - 1) = p}
    IN  IF at = {} THEN 0 ELSE CHOOSE n \in at : \A m \in at : n <= m

\* p in s
contains(s, p) == find(s, p) # 0

\* s.replace(old, new, 1)
replace_first(s, old, new) ==
    LET n == find(s, old)
    IN  IF n = 0 THEN s
        ELSE SubSeq(s, 1, n - 1) \o new \o SubSeq(s, n + Len(old), Len(s))

RECURSIVE replace(_, _, _)
\* s.replace(old, new), old not empty
replace(s, old, new) ==
    LET n == find(s, old)
    IN  IF n = 0 THEN s
        ELSE SubSeq(s, 1, n - 1) \o new \o replace(SubSeq(s, n + Len(old), Len(s)), old, new)

RECURSIVE split(_, _)
\* s.split(sep) for a one-character sep: the list of parts
split(s, sep) ==
    LET n == find(s, <<sep>>)
    IN  IF n = 0 THEN <<s>>
        ELSE <<SubSeq(s, 1, n - 1)>> \o split(SubSeq(s, n + 1, Len(s)), sep)

\* s.split('/')[-1]
last_segment(s) == LET parts == split(s, Slash) IN parts[Len(parts)]

RECURSIVE join(_)
\* '.'.join(parts)
join(parts) ==
    IF parts = <<>> THEN <<>>
    ELSE IF Len(parts) = 1 THEN parts[1]
    ELSE parts[1] \o <<Dot>> \o join(Tail(parts))

\* parts.index(x), 1-based; 0 when x is not in parts
index(parts, x) ==
    LET at == {n \in 1..Len(parts) : parts[n] = x}
    IN  IF at = {} THEN 0 ELSE CHOOSE n \in at : \A m \in at : n <= m

-----------------------------------------------------------------------------
(* the literals of the code                                                *)

s_0 == <<"0">>

s_1 == <<"1">>

s_extension == <<"e", "x", "t", "e", "n", "s", "i", "o", "n">>

s_url == <<"u", "r", "l">>

s_valueCoding == <<"v", "a", "l", "u", "e", "C", "o", "d", "i", "n", "g">>

s_valueString == <<"v", "a", "l", "u", "e", "S", "t", "r", "i", "n", "g">>

s_coding == <<"c", "o", "d", "i", "n", "g">>

s_system == <<"s", "y", "s", "t", "e", "m">>

s_code == <<"c", "o", "d", "e">>

s_display == <<"d", "i", "s", "p", "l", "a", "y">>

\* '.coding.system'
s_coding_system == <<Dot>> \o s_coding \o <<Dot>> \o s_system

\* '.coding.code'
s_coding_code == <<Dot>> \o s_coding \o <<Dot>> \o s_code

\* '.coding.display'
s_coding_display == <<Dot>> \o s_coding \o <<Dot>> \o s_display

\* f"extension.{extension_index}"
extension_prefix(extension_index) == s_extension \o <<Dot>> \o str(extension_index)

\* f"extension.{extension_index}.extension.{sub_extension_index}"
sub_extension_prefix(extension_index, sub_extension_index) ==
    extension_prefix(extension_index) \o <<Dot>> \o s_extension \o <<Dot>> \o str(sub_extension_index)

-----------------------------------------------------------------------------
(* lists and the ordered dict                                              *)

\* [p.flattened_key for p in properties]
keys_of(h, properties) == [n \in 1..Len(properties) |-> h[properties[n]].flattened_key]

\* next(iter([p for p in properties if p.flattened_key == key]), None)
first_with_key(h, properties, key) ==
    LET at == {n \in 1..Len(properties) : h[properties[n]].flattened_key = key}
    IN  IF at = {} THEN None ELSE properties[CHOOSE n \in at : \A m \in at : n <= m]

\* next(iter([k for k in flattened_keys if k.endswith(suffix)]), None); the
\* empty string stands for None (both are falsy, and no key found is empty)
first_endswith(flattened_keys, suffix) ==
    LET at == {n \in 1..Len(flattened_keys) : endswith(flattened_keys[n], suffix)}
    IN  IF at = {} THEN <<>> ELSE flattened_keys[CHOOSE n \in at : \A m \in at : n <= m]

\* position of key k in the ordered dict d; 0 when absent
dict_index(d, k) ==
    LET at == {n \in 1..Len(d) : d[n].k = k}
    IN  IF at = {} THEN 0 ELSE CHOOSE n \in at : TRUE

\* del d[k]
dict_del(d, k) == SelectSeq(d, LAMBDA g : g.k # k)

\* d[k] = properties: in place when k is present, appended otherwise
dict_set(d, k, properties) ==
    IF dict_index(d, k) = 0 THEN Append(d, [k |-> k, properties |-> properties])
    ELSE [n \in 1..Len(d) |-> IF d[n].k = k THEN [k |-> k, properties |-> properties] ELSE d[n]]

\* defaultdict(list): d[k].append(p)
dict_append(d, k, p) ==
    IF dict_index(d, k) = 0 THEN Append(d, [k |-> k, properties |-> <<p>>])
    ELSE [n \in 1..Len(d) |->
            IF d[n].k = k THEN [k |-> k, properties |-> Append(d[n].properties, p)] ELSE d[n]]

\* deepcopy(p) with flattened_key set to key: a new object
clone_with_key(p, key) == [flattened_key |-> key, value |-> p.value, id |-> p.id]

-----------------------------------------------------------------------------
(* ContextSimplifier._group_by_root                                        *)

RECURSIVE group_by_root_loop(_, _, _, _)
\* for property_ in context.properties.values():
\*     simplified_properties[property_.leaf_elements[0]['id']].append(property_)
group_by_root_loop(h, entries, n, acc) ==
    IF n > Len(entries) THEN acc
    ELSE group_by_root_loop(h, entries, n + 1, dict_append(acc, h[entries[n].obj].id, entries[n].obj))

_group_by_root(h, entries) == group_by_root_loop(h, entries, 1, <<>>)

-----------------------------------------------------------------------------
(* ContextSimplifier._extensions                                           *)

\* lines 98-106 with the string looked up first and the coding code as fallback
sub_extension_value_string_first(h, properties, prefix) ==
    IF first_with_key(h, properties, prefix \o <<Dot>> \o s_valueString) # None
    THEN first_with_key(h, properties, prefix \o <<Dot>> \o s_valueString)
    ELSE first_with_key(h, properties, prefix \o <<Dot>> \o s_valueCoding \o <<Dot>> \o s_code)

\* lines 102-106: the valueCoding.code property when found, else valueString
sub_extension_value_or(coded, h, properties, prefix) ==
    IF coded # None THEN coded
    ELSE first_with_key(h, properties, prefix \o <<Dot>> \o s_valueString)

\* lines 98-106: the value located for the sub-extension with this prefix
sub_extension_value(h, properties, prefix) ==
    sub_extension_value_or(
        first_with_key(h, properties, prefix \o <<Dot>> \o s_valueCoding \o <<Dot>> \o s_code),
        h, properties, prefix)

\* [p.flattened_key for p in properties if prefix in p.flattened_key] is not empty
any_contains(h, properties, prefix) ==
    \E n \in 1..Len(properties) : contains(h[properties[n]].flattened_key, prefix)

\* [p.flattened_key for p in properties if p.flattened_key.startswith(prefix)] is not empty
any_startswith(h, properties, prefix) ==
    \E n \in 1..Len(properties) : startswith(h[properties[n]].flattened_key, prefix)

RECURSIVE sub_extension_loop(_, _, _, _, _, _)
\* one round of the inner `while True`: found is len(sub_extension_flattened_keys) > 0;
\* next(iter([])) raises StopIteration, None.flattened_key = ... AttributeError
sub_extension_entry(h, properties, extension_index, extension_name, sub_extension_index, acc, found, sub_extension_url_property, value) ==
    IF ~found THEN [error |-> "", out |-> acc]
    ELSE IF sub_extension_url_property = None THEN [error |-> "StopIteration", out |-> acc]
    ELSE IF value = None THEN [error |-> "AttributeError", out |-> acc]
    ELSE sub_extension_loop(h, properties, extension_index, extension_name, sub_extension_index + 1,
            Append(acc, clone_with_key(h[value],
                extension_name \o <<Dot>> \o last_segment(h[sub_extension_url_property].value))))

\* the inner `while True` over sub_extension_index; acc is simplified_extensions
sub_extension_loop(h, properties, extension_index, extension_name, sub_extension_index, acc) ==
    sub_extension_entry(h, properties, extension_index, extension_name, sub_extension_index, acc,
        any_contains(h, properties, sub_extension_prefix(extension_index, sub_extension_index)),
        first_with_key(h, properties,
            sub_extension_prefix(extension_index, sub_extension_index) \o <<Dot>> \o s_url),
        sub_extension_value(h, properties, sub_extension_prefix(extension_index, sub_extension_index)))

RECURSIVE extension_loop(_, _, _, _)
\* the outer loop once the sub-extensions of extension_index are done
extension_next(h, properties, extension_index, sub) ==
    IF sub.error # "" THEN sub ELSE extension_loop(h, properties, extension_index + 1, sub.out)

\* one round of the outer loop with next(iter(...), None) and the extension
\* skipped when it has no url
extension_entry_lenient(h, properties, extension_index, acc, found, url_property) ==
    IF ~found THEN [error |-> "", out |-> acc]
    ELSE IF url_property = None THEN extension_loop(h, properties, extension_index + 1, acc)
    ELSE extension_next(h, properties, extension_index,
            sub_extension_loop(h, properties, extension_index,
                last_segment(h[url_property].value), 0, acc))

\* one round of the outer `while True`: found is len(flattened_keys) > 0
extension_entry(h, properties, extension_index, acc, found, url_property) ==
    IF ~found THEN [error |-> "", out |-> acc]
    ELSE IF url_property = None THEN [error |-> "StopIteration", out |-> acc]
    ELSE extension_next(h, properties, extension_index,
            sub_extension_loop(h, properties, extension_index,
                last_segment(h[url_property].value), 0, acc))

\* the outer `while True` over extension_index
extension_loop(h, properties, extension_index, acc) ==
    extension_entry(h, properties, extension_index, acc,
        any_startswith(h, properties, extension_prefix(extension_index)),
        first_with_key(h, properties, extension_prefix(extension_index) \o <<Dot>> \o s_url))

RECURSIVE extensions_groups(_, _, _, _)
\* a group whose key ends with 'extension': r is what its loops leave
extensions_group(h, d, n, r) ==
    extensions_groups(h, d, n + 1, [error |-> r.error, out |-> r.out, key |-> d[n].k])

\* `for k, properties in simplified_properties.items()`; st holds
\* simplified_extensions and simplified_extensions_key
extensions_groups(h, d, n, st) ==
    IF n > Len(d) \/ st.error # "" THEN st
    ELSE IF ~endswith(d[n].k, s_extension) THEN extensions_groups(h, d, n + 1, st)
    ELSE extensions_group(h, d, n, extension_loop(h, d[n].properties, 0, st.out))

\* the replacement of the group without the del of line 117: the key keeps its place
extensions_replace_in_place(d, key, properties) == dict_set(d, key, properties)

\* the replacement of the group: del, then set, so the key moves to the end
extensions_replace(d, key, properties) == dict_set(dict_del(d, key), key, properties)

\* lines 116-120, st being what the loop over the groups left
extensions_result(h, d, st) ==
    IF st.error # "" THEN [error |-> st.error, heap |-> h, simplified_properties |-> d]
    ELSE IF st.key = <<>> THEN [error |-> "", heap |-> h, simplified_properties |-> d]
    ELSE [error |-> "", heap |-> h \o st.out,
          simplified_properties |->
              extensions_replace(d, st.key, [n \in 1..Len(st.out) |-> Len(h) + n])]

\* _extensions: [error, heap, simplified_properties]
_extensions(h, d) ==
    extensions_result(h, d, extensions_groups(h, d, 1, [error |-> "", out |-> <<>>, key |-> <<>>]))

-----------------------------------------------------------------------------
(* ContextSimplifier._single_item_lists                                    *)

\* range(2)
range_two == Cardinality({0, 1})

\* range(3)
range_stop == 3

\* the test of line 60 left out: every list taken for a single item list
is_single_item_list_always(property_name, flattened_keys) == TRUE

\* not any([f"{property_name}.1" in k for k in flattened_keys])
is_single_item_list(property_name, flattened_keys) ==
    \A n \in 1..Len(flattened_keys) : ~contains(flattened_keys[n], property_name \o <<Dot>> \o s_1)

\* the body of `for flattened_key in flattened_keys`, on the current keys of
\* the group's properties
single_item_key_step(flattened_key, flattened_keys, current) ==
    LET flattened_key_parts == split(flattened_key, Dot)
        \* list.index is 0-based: array_index > 0 is position >= 2 here
        array_position == index(flattened_key_parts, s_0)
        property_name  == flattened_key_parts[array_position - 1]
    IN  IF array_position >= 2 /\ is_single_item_list(property_name, flattened_keys)
        THEN [n \in 1..Len(current) |->
                replace_first(current[n], property_name \o <<Dot>> \o s_0, property_name)]
        ELSE current

RECURSIVE single_item_keys_loop(_, _, _)
single_item_keys_loop(flattened_keys, n, current) ==
    IF n > Len(flattened_keys) THEN current
    ELSE single_item_keys_loop(flattened_keys, n + 1,
            single_item_key_step(flattened_keys[n], flattened_keys, current))

\* one group in one iteration: the keys its properties end with
single_item_group(h, properties) ==
    LET flattened_keys == keys_of(h, properties)
    IN  single_item_keys_loop(flattened_keys, 1, flattened_keys)

RECURSIVE single_item_lists_pass(_, _, _)
\* `for k, properties in simplified_properties.items()` of one iteration:
\* the heap with the flattened_key of the groups' properties rewritten
single_item_lists_pass(h, d, n) ==
    IF n > Len(d) THEN h
    ELSE LET properties == d[n].properties
             renamed    == single_item_group(h, properties)
             at(o)      == CHOOSE m \in 1..Len(properties) : properties[m] = o
             h2 == [o \in 1..Len(h) |->
                      IF \E m \in 1..Len(properties) : properties[m] = o
                      THEN [h[o] EXCEPT !.flattened_key = renamed[at(o)]]
                      ELSE h[o]]
         IN  single_item_lists_pass(h2, d, n + 1)

-----------------------------------------------------------------------------
(* ContextSimplifier._codings                                              *)

\* the local system_value before its first assignment
Unbound == [bound |-> FALSE, value |-> <<>>]

\* lines 135, 138, 141: the property a found key names, None when none was found
coding_property(h, properties, key) ==
    IF key = <<>> THEN None ELSE first_with_key(h, properties, key)

\* lines 142-148: system_value, assigned only when system and code are found
codings_system_value(h, system, code, system_value) ==
    IF system # None /\ code # None
    THEN [bound |-> TRUE, value |-> last_segment(h[system].value)]
    ELSE system_value

\* system.flattened_key.replace('.coding.system', '')
codings_base_key(h, system) == replace(h[system].flattened_key, s_coding_system, <<>>)

\* lines 142-155: simplified_coding_values
codings_values(h, system, code, display, base_key, system_value) ==
    (IF system # None /\ code # None
     THEN <<clone_with_key(h[code], base_key \o <<Dot>> \o system_value.value)>>
     ELSE <<>>)
    \o
    (IF system # None /\ display # None
     THEN <<clone_with_key(h[display], base_key \o <<Dot>> \o system_value.value \o <<Dot>> \o s_display)>>
     ELSE <<>>)

\* lines 133-141: original_coded_values[k] after the three appends
codings_originals(originals, k, found) ==
    IF Len(found) = 0 THEN originals ELSE Append(originals, [k |-> k, keys |-> found])

\* lines 142-156 of one group, with system_value as line 144 leaves it; reading
\* it unassigned at line 154 raises UnboundLocalError
codings_emit(st, n, found, system, display, system_value, values) ==
    IF system # None /\ display # None /\ ~system_value.bound
    THEN [st EXCEPT !.error = "UnboundLocalError"]
    ELSE [error |-> "",
          heap |-> st.heap \o values,
          d |-> dict_set(st.d, st.d[n].k,
                    st.d[n].properties \o [m \in 1..Len(values) |-> Len(st.heap) + m]),
          system_value |-> system_value,
          original_coded_values |-> codings_originals(st.original_coded_values, st.d[n].k, found)]

\* lines 135-155 of one group, the three properties looked up
codings_found(st, n, found, system, code, display, system_value) ==
    codings_emit(st, n, found, system, display, system_value,
        codings_values(st.heap, system, code, display, codings_base_key(st.heap, system), system_value))

\* lines 133-141 of one group, the three keys found (empty: not found)
codings_keys(st, n, system_key, code_key, display_key, system, code) ==
    codings_found(st, n,
        SelectSeq(<<system_key, code_key, display_key>>, LAMBDA key : key # <<>>),
        system, code,
        coding_property(st.heap, st.d[n].properties, display_key),
        codings_system_value(st.heap, system, code, st.system_value))

\* lines 129-132 of one group, flattened_keys being its keys that contain 'coding'
codings_coded(st, n, flattened_keys, system_key, code_key) ==
    IF Len(flattened_keys) = 0 THEN st
    ELSE codings_keys(st, n, system_key, code_key,
            first_endswith(flattened_keys, s_coding_display),
            coding_property(st.heap, st.d[n].properties, system_key),
            coding_property(st.heap, st.d[n].properties, code_key))

\* [p.flattened_key for p in properties if 'coding' in p.flattened_key]
coding_keys(h, properties) ==
    SelectSeq(keys_of(h, properties), LAMBDA key : contains(key, s_coding))

\* lines 130-131, on the keys that contain 'coding'
codings_scan(st, n, flattened_keys) ==
    codings_coded(st, n, flattened_keys,
        first_endswith(flattened_keys, s_coding_system),
        first_endswith(flattened_keys, s_coding_code))

\* one group of `for k, properties in simplified_properties.items()`;
\* st: [error, heap, d, system_value, original_coded_values]
codings_group(st, n) == codings_scan(st, n, coding_keys(st.heap, st.d[n].properties))

RECURSIVE codings_groups(_, _)
codings_groups(st, n) ==
    IF n > Len(st.d) \/ st.error # "" THEN st
    ELSE codings_groups(codings_group(st, n), n + 1)

\* the filter of lines 158-159 with `in` for `not in`
codings_keep_originals(h, properties, keys) ==
    SelectSeq(properties, LAMBDA o : \E m \in 1..Len(keys) : h[o].flattened_key = keys[m])

\* [p for p in simplified_properties[k] if p.flattened_key not in original_coded_values]
codings_keep(h, properties, keys) ==
    SelectSeq(properties, LAMBDA o : \A m \in 1..Len(keys) : h[o].flattened_key # keys[m])

RECURSIVE codings_remove(_, _, _, _)
\* `for k, original_coded_values in original_coded_values.items()`
codings_remove(h, d, originals, n) ==
    IF n > Len(originals) THEN d
    ELSE codings_remove(h,
            dict_set(d, originals[n].k,
                codings_keep(h, d[dict_index(d, originals[n].k)].properties, originals[n].keys)),
            originals, n + 1)

\* lines 157-160, st being what the loop over the groups left
codings_result(h, d, st) ==
    IF st.error # "" THEN [error |-> st.error, heap |-> h, simplified_properties |-> d]
    ELSE [error |-> "", heap |-> st.heap,
          simplified_properties |-> codings_remove(st.heap, st.d, st.original_coded_values, 1)]

\* _codings: [error, heap, simplified_properties]
_codings(h, d) ==
    codings_result(h, d,
        codings_groups([error |-> "", heap |-> h, d |-> d, system_value |-> Unbound,
                        original_coded_values |-> <<>>], 1))

-----------------------------------------------------------------------------
(* ContextSimplifier.simplify                                              *)

\* context.properties[key] = obj
properties_set(entries, key, obj) ==
    IF \E n \in 1..Len(entries) : entries[n].key = key
    THEN [n \in 1..Len(entries) |-> IF entries[n].key = key THEN [key |-> key, obj |-> obj] ELSE entries[n]]
    ELSE Append(entries, [key |-> key, obj |-> obj])

\* the properties of all groups, in the order the nested loops visit them
RECURSIVE all_properties(_, _)
all_properties(d, n) ==
    IF n > Len(d) THEN <<>> ELSE d[n].properties \o all_properties(d, n + 1)

RECURSIVE flatten_loop(_, _, _, _)
flatten_loop(h, objs, n, entries) ==
    IF n > Len(objs) THEN entries
    ELSE flatten_loop(h, objs, n + 1, properties_set(entries, h[objs[n]].flattened_key, objs[n]))

\* context.properties = {}; for k, properties in ...: for p in properties: ...
flatten(h, d) == flatten_loop(h, all_properties(d, 1), 1, <<>>)

NoSnapshot == [heap |-> <<>>, simplified_properties |-> <<>>]

Snapshot(h, d) == [heap |-> h, simplified_properties |-> d]

\* `assert context.properties` and _group_by_root
Simplify_group_by_root ==
    /\ pc = "simplify"
    /\ IF Len(context_properties) = 0
       THEN /\ pc' = "raised"
            /\ error' = "AssertionError"
            /\ UNCHANGED <<simplified_properties, hist>>
       ELSE /\ pc' = "_extensions"
            /\ simplified_properties' = _group_by_root(heap, context_properties)
            /\ hist' = [hist EXCEPT !._group_by_root = Snapshot(heap, simplified_properties')]
            /\ UNCHANGED error
    /\ UNCHANGED <<heap, context_properties, i, entry>>

\* what simplify does with the result r of a pass that may raise
pass_result(r, at, next) ==
    IF r.error # ""
    THEN /\ pc' = "raised"
         /\ error' = r.error
         /\ UNCHANGED <<heap, simplified_properties, hist>>
    ELSE /\ pc' = next
         /\ heap' = r.heap
         /\ simplified_properties' = r.simplified_properties
         /\ hist' = [hist EXCEPT ![at] = Snapshot(r.heap, r.simplified_properties)]
         /\ UNCHANGED error

Simplify_extensions ==
    /\ pc = "_extensions"
    /\ pass_result(_extensions(heap, simplified_properties), "_extensions", "_single_item_lists")
    /\ i' = 0
    /\ UNCHANGED <<context_properties, entry>>

\* one iteration of `for i in range(3)`
Simplify_single_item_lists ==
    /\ pc = "_single_item_lists"
    /\ i < range_stop
    /\ heap' = single_item_lists_pass(heap, simplified_properties, 1)
    /\ i' = i + 1
    /\ pc' = IF i' < range_stop THEN "_single_item_lists" ELSE "_codings"
    /\ hist' = IF i' < range_stop THEN hist
               ELSE [hist EXCEPT !._single_item_lists = Snapshot(heap', simplified_properties)]
    /\ UNCHANGED <<context_properties, simplified_properties, error, entry>>

Simplify_codings ==
    /\ pc = "_codings"
    /\ pass_result(_codings(heap, simplified_properties), "_codings", "flatten")
    /\ UNCHANGED <<context_properties, i, entry>>

\* lines 30-34: the grouped properties back into context.properties
Simplify_return ==
    /\ pc = "flatten"
    /\ context_properties' = flatten(heap, simplified_properties)
    /\ pc' = "returned"
    /\ UNCHANGED <<heap, simplified_properties, i, error, entry, hist>>

Next ==
    \/ Simplify_group_by_root
    \/ Simplify_extensions
    \/ Simplify_single_item_lists
    \/ Simplify_codings
    \/ Simplify_return

-----------------------------------------------------------------------------
(* contexts handed to simplify                                             *)

\* a Property of the flattening stage: flattened_key from its segments,
\* leaf_elements[0]['id'] as id
Property(segments, value, id) == [flattened_key |-> join(segments), value |-> value, id |-> id]

\* the flattening stage numbers the items of a list 0, 1, ...: a key with
\* index 1 at some place comes with a key that has index 0 at that place
arrays_contiguous(keys) ==
    \A n \in 1..Len(keys) :
        LET parts == split(keys[n], Dot)
        IN  \A j \in 1..Len(parts) :
                parts[j] = s_1 =>
                    \E m \in 1..Len(keys) :
                        LET other == split(keys[m], Dot)
                        IN  /\ Len(other) >= j
                            /\ SubSeq(other, 1, j - 1) = SubSeq(parts, 1, j - 1)
                            /\ other[j] = s_0

\* the properties chosen from a pool, in the pool's order or in reverse
chosen(pool, S, reversed) ==
    LET picked == SelectSeq([n \in 1..Len(pool) |-> n], LAMBDA n : n \in S)
    IN  [n \in 1..Len(picked) |->
            pool[IF reversed THEN picked[Len(picked) + 1 - n] ELSE picked[n]]]

\* the contexts of at most max properties of pool the flattening stage can produce
contexts(pool, max) ==
    {c \in {chosen(pool, S, reversed) :
                S \in {T \in SUBSET (1..Len(pool)) : Cardinality(T) <= max}, reversed \in BOOLEAN} :
        arrays_contiguous([n \in 1..Len(c) |-> c[n].flattened_key])}

\* simplify is called with one of these contexts
InitFrom(pool, max) ==
        /\ heap \in contexts(pool, max)
        /\ context_properties = [n \in 1..Len(heap) |-> [key |-> heap[n].flattened_key, obj |-> n]]
        /\ simplified_properties = <<>>
        /\ pc = "simplify"
        /\ i = 0
        /\ error = ""
        /\ entry = [heap |-> heap, context_properties |-> context_properties]
        /\ hist = [_group_by_root |-> NoSnapshot, _extensions |-> NoSnapshot,
                   _single_item_lists |-> NoSnapshot, _codings |-> NoSnapshot]

-----------------------------------------------------------------------------
(* the properties the contexts are built from                              *)

\* lists nested one to five deep, with and without a second item
PoolList ==
    <<Property(<<<<"a">>, s_0, <<"b">>>>, <<"v", "1">>, <<"A">>),
      Property(<<<<"a">>, s_1, <<"b">>>>, <<"v", "2">>, <<"A">>),
      Property(<<<<"a">>, s_0, <<"c">>, s_0, <<"d">>>>, <<"v", "3">>, <<"A">>),
      Property(<<<<"x">>, s_0, <<"c">>, s_0, <<"d">>>>, <<"v", "4">>, <<"A">>),
      Property(<<<<"x">>, s_0, <<"c">>, s_1, <<"d">>>>, <<"v", "5">>, <<"A">>),
      Property(<<<<"p">>, s_0, <<"q">>, s_0, <<"r">>, s_0, <<"s">>>>, <<"v", "6">>, <<"A">>),
      Property(<<<<"p">>, s_0, <<"q">>, s_0, <<"r">>, s_0, <<"s">>, s_0, <<"t">>>>, <<"v", "7">>, <<"A">>),
      Property(<<<<"q">>, s_0, <<"z">>>>, <<"v", "8">>, <<"A">>),
      Property(<<<<"u">>, s_0, <<"v">>, s_0, <<"w">>, s_0, <<"x">>, s_0, <<"y">>, s_0, <<"z">>>>, <<"v", "9">>, <<"A">>),
      Property(<<<<"b", "a">>, s_0, <<"y">>>>, <<"v", "a">>, <<"A">>),
      Property(<<<<"b", "a">>, s_1, <<"y">>>>, <<"v", "b">>, <<"A">>),
      Property(<<<<"a">>, s_1, <<"z">>>>, <<"v", "c">>, <<"B">>)>>

\* a coding triple with a sibling, and one held in single item lists
PoolCoding ==
    <<Property(<<s_code, s_coding, s_system>>, <<"x", "/", "s", "1">>, <<"C">>),
      Property(<<s_code, s_coding, s_code>>, <<"1", "2", "3">>, <<"C">>),
      Property(<<s_code, s_coding, s_display>>, <<"F", "o", "o">>, <<"C">>),
      Property(<<s_code, <<"t", "e", "x", "t">>>>, <<"T">>, <<"C">>),
      Property(<<<<"c", "a", "t">>, s_0, s_coding, s_0, s_system>>, <<"y", "/", "s", "2">>, <<"D">>),
      Property(<<<<"c", "a", "t">>, s_0, s_coding, s_0, s_code>>, <<"4", "5", "6">>, <<"D">>),
      Property(<<<<"c", "a", "t">>, s_0, s_coding, s_0, s_display>>, <<"B", "a", "r">>, <<"D">>),
      Property(<<<<"c", "a", "t">>, s_1, <<"t", "e", "x", "t">>>>, <<"U">>, <<"D">>)>>

\* two extensions with their sub-extensions, and properties of other roots
PoolExtension ==
    <<Property(<<s_extension, s_0, s_url>>, <<"h", "/", "r", "a", "c", "e">>, s_extension),
      Property(<<s_extension, s_0, s_extension, s_0, s_url>>, <<"h", "/", "t", "e", "x", "t">>, s_extension),
      Property(<<s_extension, s_0, s_extension, s_0, s_valueString>>, <<"A", "s">>, s_extension),
      Property(<<s_extension, s_0, s_extension, s_0, s_valueCoding, s_code>>, <<"2", "0", "2", "8">>, s_extension),
      Property(<<s_extension, s_0, s_extension, s_1, s_url>>, <<"h", "/", "o", "m", "b">>, s_extension),
      Property(<<s_extension, s_0, s_extension, s_1, s_valueCoding, s_code>>, <<"2", "1", "0", "6">>, s_extension),
      Property(<<s_extension, s_1, s_url>>, <<"h", "/", "e", "t", "h">>, s_extension),
      Property(<<s_extension, s_1, s_extension, s_0, s_url>>, <<"h", "/", "t", "e", "x", "t">>, s_extension),
      Property(<<s_extension, s_1, s_extension, s_0, s_valueString>>, <<"H", "i">>, s_extension),
      Property(<<<<"r", "a", "c", "e">>, <<"t", "e", "x", "t">>>>, <<"G">>, <<"R">>),
      Property(<<<<"n">>, s_0, <<"v">>>>, <<"w", "1">>, <<"N">>),
      Property(<<<<"n">>, <<"v">>>>, <<"w", "2">>, <<"M">>)>>

MaxList == 4

MaxCoding == 6

MaxExtension == 6

InitList == InitFrom(PoolList, MaxList)

InitCoding == InitFrom(PoolCoding, MaxCoding)

InitExtension == InitFrom(PoolExtension, MaxExtension)

SpecList == InitList /\ [][Next]_vars

SpecCoding == InitCoding /\ [][Next]_vars

SpecExtension == InitExtension /\ [][Next]_vars

-----------------------------------------------------------------------------
(* what the claims speak of                                                *)

\* the final mapping holds key, on a property with that flattened_key and value
returned_has(key, value) ==
    \E n \in 1..Len(context_properties) :
        /\ context_properties[n].key = key
        /\ heap[context_properties[n].obj].flattened_key = key
        /\ heap[context_properties[n].obj].value = value

\* the final mapping holds key
returned_key(key) == \E n \in 1..Len(context_properties) : context_properties[n].key = key

\* a list of properties holds one with this key and value
group_has(h, properties, key, value) ==
    \E n \in 1..Len(properties) :
        h[properties[n]].flattened_key = key /\ h[properties[n]].value = value

\* the places of the keys that end with suffix
ending(keys, suffix) == {n \in 1..Len(keys) : endswith(keys[n], suffix)}

\* the only element of a one-element set
only(S) == CHOOSE x \in S : TRUE

\* key without the suffix it ends with
without_suffix(key, suffix) == SubSeq(key, 1, Len(key) - Len(suffix))

\* _single_item_lists has returned
collapsed == hist._single_item_lists # NoSnapshot

\* _codings has run: it returned or raised
codings_ran ==
    pc \in {"flatten", "returned"} \/ (pc = "raised" /\ error = "UnboundLocalError")

\* the groups handed to _codings, and the heap then
coding_in == hist._single_item_lists

\* the group of root k in the snapshot, as object list (empty when absent)
group_of(snapshot, k) ==
    IF dict_index(snapshot.simplified_properties, k) = 0 THEN <<>>
    ELSE snapshot.simplified_properties[dict_index(snapshot.simplified_properties, k)].properties

-----------------------------------------------------------------------------
(* C1 *)

\* group g of the groups handed to _codings holds exactly one key with each
\* of the three endings
coding_triple(g) ==
    LET keys == keys_of(coding_in.heap, coding_in.simplified_properties[g].properties)
    IN  /\ Cardinality(ending(keys, s_coding_system)) = 1
        /\ Cardinality(ending(keys, s_coding_code)) = 1
        /\ Cardinality(ending(keys, s_coding_display)) = 1

\* what C1 says of group g, given the places of its three keys
coding_triple_simplified(g, sn, cn, dn) ==
    LET h          == coding_in.heap
        properties == coding_in.simplified_properties[g].properties
        base_key   == without_suffix(h[properties[sn]].flattened_key, s_coding_system)
        system_tag == last_segment(h[properties[sn]].value)
    IN  /\ returned_has(base_key \o <<Dot>> \o system_tag, h[properties[cn]].value)
        /\ returned_has(base_key \o <<Dot>> \o system_tag \o <<Dot>> \o s_display,
                        h[properties[dn]].value)
        /\ \A n \in {sn, cn, dn} : ~returned_key(h[properties[n]].flattened_key)
        /\ \A n \in (1..Len(properties)) \ {sn, cn, dn} :
               returned_has(h[properties[n]].flattened_key, h[properties[n]].value)

\* C1: for every group that holds one key ending .coding.system, one ending
\* .coding.code and one ending .coding.display, the mapping simplify returns
\* holds <base_key>.<system_tag> with the code's value and
\* <base_key>.<system_tag>.display with the display's value, holds none of the
\* three original keys, and keeps every other property of the group with its
\* key and value.
C1_coding_triple ==
    pc = "returned" =>
        \A g \in 1..Len(coding_in.simplified_properties) :
            coding_triple(g) =>
                LET keys == keys_of(coding_in.heap, coding_in.simplified_properties[g].properties)
                IN  coding_triple_simplified(g, only(ending(keys, s_coding_system)),
                        only(ending(keys, s_coding_code)), only(ending(keys, s_coding_display)))

\* a returned context whose input held the triple code.coding.* and code.text
C1_witness ==
    /\ pc = "returned"
    /\ \E g \in 1..Len(coding_in.simplified_properties) :
           coding_triple(g) /\ Len(coding_in.simplified_properties[g].properties) = 4
    /\ returned_key(<<"c", "o", "d", "e", ".", "s", "1">>)
    /\ returned_key(<<"c", "o", "d", "e", ".", "t", "e", "x", "t">>)

-----------------------------------------------------------------------------
(* C2 *)

\* what C2 says of a group handed to _codings in which the keys system_key
\* and display_key were found
display_emitted(h, k, properties, system_key, display_key) ==
    LET system   == h[first_with_key(h, properties, system_key)]
        display  == h[first_with_key(h, properties, display_key)]
        base_key == without_suffix(system.flattened_key, s_coding_system)
    IN  /\ pc # "raised"
        /\ group_has(hist._codings.heap, group_of(hist._codings, k),
               base_key \o <<Dot>> \o last_segment(system.value) \o <<Dot>> \o s_display,
               display.value)

\* C2: in every group where _codings finds a .coding.system key and a
\* .coding.display key, with or without a .coding.code key and whatever groups
\* came before, the pass completes and emits a clone of the display property
\* under <base_key>.<system_tag>.display, system_tag being the last /-segment
\* of that group's system value.
C2_display_emitted ==
    codings_ran =>
        \A g \in 1..Len(coding_in.simplified_properties) :
            LET k          == coding_in.simplified_properties[g].k
                properties == coding_in.simplified_properties[g].properties
                keys       == coding_keys(coding_in.heap, properties)
            IN  (first_endswith(keys, s_coding_system) # <<>>
                    /\ first_endswith(keys, s_coding_display) # <<>>) =>
                    display_emitted(coding_in.heap, k, properties,
                        first_endswith(keys, s_coding_system), first_endswith(keys, s_coding_display))

-----------------------------------------------------------------------------
(* C10 *)

\* '.coding.0.system', '.coding.0.code', '.coding.0.display'
s_coding_0(name) == <<Dot>> \o s_coding \o <<Dot>> \o s_0 \o <<Dot>> \o name

\* key with its 0 segments removed
without_zeros(key) == join(SelectSeq(split(key, Dot), LAMBDA part : part # s_0))

\* group g of the input holds a coding triple as a single item list
single_item_triple(g) ==
    LET keys == keys_of(entry.heap, hist._group_by_root.simplified_properties[g].properties)
    IN  /\ Cardinality(ending(keys, s_coding_0(s_system))) = 1
        /\ Cardinality(ending(keys, s_coding_0(s_code))) = 1
        /\ Cardinality(ending(keys, s_coding_0(s_display))) = 1
        /\ \A n \in 1..Len(keys) : ~contains(keys[n], s_coding \o <<Dot>> \o s_1)

\* the final mapping holds <base>.<rest> with this value, base as input or
\* with its own single item indices removed
returned_under(base, rest, value) ==
    \/ returned_has(base \o <<Dot>> \o rest, value)
    \/ returned_has(without_zeros(base) \o <<Dot>> \o rest, value)

\* what C10 says of the triple of input group g, given the places of its keys
single_item_triple_simplified(g, sn, cn, dn) ==
    LET h          == entry.heap
        k          == hist._group_by_root.simplified_properties[g].k
        properties == hist._group_by_root.simplified_properties[g].properties
        base       == without_suffix(h[properties[sn]].flattened_key, s_coding_0(s_system))
        system_tag == last_segment(h[properties[sn]].value)
    IN  /\ returned_under(base, system_tag, h[properties[cn]].value)
        /\ returned_under(base, system_tag \o <<Dot>> \o s_display, h[properties[dn]].value)
        /\ \A n \in 1..Len(context_properties) :
               heap[context_properties[n].obj].id = k =>
                   ~contains(context_properties[n].key, s_coding)

\* C10: simplify runs _group_by_root, _extensions, _single_item_lists and
\* _codings once each in this order; _extensions reads the keys as they were
\* input, _codings the keys the collapser left, so that a coding triple held
\* as a single item list (<base>.coding.0.system, .code, .display, no key of
\* the group containing coding.1) ends in the final mapping as
\* <base>.<system_tag> and <base>.<system_tag>.display, with no key
\* containing coding left.
C10_order_single_item_coding ==
    /\ hist._extensions # NoSnapshot => hist._group_by_root.heap = entry.heap
    /\ collapsed => hist._extensions # NoSnapshot
    /\ hist._codings # NoSnapshot => collapsed
    /\ pc = "returned" =>
           \A g \in 1..Len(hist._group_by_root.simplified_properties) :
               single_item_triple(g) =>
                   LET keys == keys_of(entry.heap, hist._group_by_root.simplified_properties[g].properties)
                   IN  single_item_triple_simplified(g, only(ending(keys, s_coding_0(s_system))),
                           only(ending(keys, s_coding_0(s_code))),
                           only(ending(keys, s_coding_0(s_display))))

-----------------------------------------------------------------------------
(* C5, C8, C9: the keys before and after _single_item_lists                *)

\* the groups handed to _single_item_lists, and the heap then
collapse_in == hist._extensions

\* the heap _single_item_lists left (the groups are the same lists)
collapse_out == hist._single_item_lists

\* the key of property n of group g before and after the collapser
key_in(g, n) == collapse_in.heap[collapse_in.simplified_properties[g].properties[n]].flattened_key

key_out(g, n) == collapse_out.heap[collapse_in.simplified_properties[g].properties[n]].flattened_key

\* the keys of group g before the collapser
keys_in(g) == keys_of(collapse_in.heap, collapse_in.simplified_properties[g].properties)

\* the places of the array indices 0 of a key, given as parts
zeros(parts) == {j \in 2..Len(parts) : parts[j] = s_0}

\* the parts that are not an index 0: the collapser removes nothing else
names(parts) == SelectSeq(parts, LAMBDA part : part # s_0)

\* the number of parts before place j that are not an index 0
names_before(parts, j) == Cardinality({m \in 1..(j - 1) : parts[m] # s_0})

\* the index 0 at place j of the parts before is still in the parts after:
\* there too a 0 follows the name it followed
survives(before, after, j) ==
    \E q \in 1..(Len(after) - 1) :
        /\ after[q] # s_0
        /\ names_before(after, q + 1) = names_before(before, j)
        /\ after[q + 1] = s_0

\* the number of places where name is followed by an index 0
indexed_0(parts, name) ==
    Cardinality({m \in 1..(Len(parts) - 1) : parts[m] = name /\ parts[m + 1] = s_0})

\* some key of group g contains text
group_contains(g, text) == \E n \in 1..Len(keys_in(g)) : contains(keys_in(g)[n], text)

\* what C5 says of property n of group g, j being the place of the first 0
\* segment of its key and name the part before it
first_index_collapsed(g, n, before, after, j, name) ==
    IF ~group_contains(g, name \o <<Dot>> \o s_1)
    THEN /\ SubSeq(after, 1, j - 1) = SubSeq(before, 1, j - 1)
         /\ ~survives(before, after, j)
         /\ names(after) = names(before)
         /\ collapse_out.heap[collapse_in.simplified_properties[g].properties[n]].value
                = collapse_in.heap[collapse_in.simplified_properties[g].properties[n]].value
    ELSE \A m \in 1..Len(keys_in(g)) :
            indexed_0(split(key_out(g, m), Dot), name) = indexed_0(split(key_in(g, m), Dot), name)

at_most_three_levels(g) ==
    \A n \in 1..Len(keys_in(g)) :
        Cardinality({j \in 1..Len(split(key_in(g, n), Dot)) :
                        split(key_in(g, n), Dot)[j] \in {s_0, s_1}}) <= 3

\* C8: in every group with at most three levels of array nesting, for every
\* array position with full dotted prefix P: if no key of the group contains
\* P.1, no key of the group still carries the index 0 of that array after the
\* collapser, whichever 0 of its key it is and whatever other arrays of the
\* group share its last name segment.
C8_every_single_array_collapsed ==
    collapsed =>
        \A g \in 1..Len(collapse_in.simplified_properties) :
            at_most_three_levels(g) =>
                \A n \in 1..Len(keys_in(g)) :
                    \A j \in zeros(split(key_in(g, n), Dot)) :
                        ~group_contains(g, join(SubSeq(split(key_in(g, n), Dot), 1, j - 1)) \o <<Dot>> \o s_1)
                            => ~survives(split(key_in(g, n), Dot), split(key_out(g, n), Dot), j)

\* the key, given as parts, is nested in single item lists only: its indices
\* are all 0 and no key of group g contains <name>.1 for the name before one
nested_in_single_item_lists(g, parts) ==
    /\ \A j \in 1..Len(parts) : parts[j] # s_1
    /\ \A j \in zeros(parts) : ~group_contains(g, parts[j - 1] \o <<Dot>> \o s_1)

\* no other property of group g than n has an index 0 in its key
only_indexed_key(g, n) ==
    \A m \in (1..Len(keys_in(g))) \ {n} : zeros(split(key_in(g, m), Dot)) = {}

\* C9 as stated: the pass is applied three times; a key nested in one, two or
\* three single item lists ends with all those indices removed, and a key
\* nested in four or more never ends fully collapsed, whatever other keys the
\* group holds.
C9_three_passes_as_stated ==
    collapsed =>
        /\ i = 3
        /\ \A g \in 1..Len(collapse_in.simplified_properties) :
               \A n \in 1..Len(keys_in(g)) :
                   nested_in_single_item_lists(g, split(key_in(g, n), Dot)) =>
                       IF Cardinality(zeros(split(key_in(g, n), Dot))) <= 3
                       THEN zeros(split(key_out(g, n), Dot)) = {}
                       ELSE zeros(split(key_out(g, n), Dot)) # {}

\* C9, amended: the pass is applied three times; a key nested in one, two or
\* three single item lists ends with all those indices removed; a key nested
\* in four or more ends with exactly three of them removed when it is the
\* only key of its group with an index 0.
C9_three_passes ==
    collapsed =>
        /\ i = 3
        /\ \A g \in 1..Len(collapse_in.simplified_properties) :
               \A n \in 1..Len(keys_in(g)) :
                   nested_in_single_item_lists(g, split(key_in(g, n), Dot)) =>
                       IF Cardinality(zeros(split(key_in(g, n), Dot))) <= 3
                       THEN zeros(split(key_out(g, n), Dot)) = {}
                       ELSE only_indexed_key(g, n) =>
                                Cardinality(zeros(split(key_out(g, n), Dot)))
                                    = Cardinality(zeros(split(key_in(g, n), Dot))) - 3

\* a returned context of the one key p.0.q.0.r.0.s.0.t, ending as p.q.r.s.0.t
C9_witness ==
    /\ pc = "returned"
    /\ Len(entry.heap) = 1
    /\ Cardinality(zeros(split(entry.heap[1].flattened_key, Dot))) = 4
    /\ returned_key(<<"p", ".", "q", ".", "r", ".", "s", ".", "0", ".", "t">>)

-----------------------------------------------------------------------------
(* C3, C4, C7: the extension group of the input                            *)

\* the places of the input groups whose root id ends with 'extension'
extension_roots ==
    {g \in 1..Len(hist._group_by_root.simplified_properties) :
        endswith(hist._group_by_root.simplified_properties[g].k, s_extension)}

\* the input properties of the extension group, and their keys as parts
extension_input == hist._group_by_root.simplified_properties[only(extension_roots)].properties

extension_parts == {split(entry.heap[extension_input[n]].flattened_key, Dot) : n \in 1..Len(extension_input)}

\* the extension indices i, and the sub-extension entries <<i, j>>, of the input
extension_indices == {parts[2] : parts \in {q \in extension_parts : Len(q) >= 2}}

sub_extension_entries ==
    {<<parts[2], parts[4]>> : parts \in {q \in extension_parts : Len(q) >= 4 /\ q[3] = s_extension}}

\* the value of the input property of the extension group with these parts
extension_value_at(parts) ==
    entry.heap[extension_input[CHOOSE n \in 1..Len(extension_input) :
        split(entry.heap[extension_input[n]].flattened_key, Dot) = parts]].value

url_at(e) == <<s_extension, e[1], s_extension, e[2], s_url>>

coding_at(e) == <<s_extension, e[1], s_extension, e[2], s_valueCoding, s_code>>

string_at(e) == <<s_extension, e[1], s_extension, e[2], s_valueString>>

\* every extension index and every sub-extension entry has its url
urls_present ==
    /\ \A x \in extension_indices : <<s_extension, x, s_url>> \in extension_parts
    /\ \A e \in sub_extension_entries : url_at(e) \in extension_parts

\* the sub-extension entry has a value
has_value(e) == coding_at(e) \in extension_parts \/ string_at(e) \in extension_parts

\* <extension_name>.<sub_extension_name> of a sub-extension entry
simplified_key(e) ==
    last_segment(extension_value_at(<<s_extension, e[1], s_url>>))
        \o <<Dot>> \o last_segment(extension_value_at(url_at(e)))

\* the value of a sub-extension entry: the coding code, else the string
simplified_value(e) ==
    IF coding_at(e) \in extension_parts THEN extension_value_at(coding_at(e))
    ELSE extension_value_at(string_at(e))

\* _extensions has run: it returned or raised
extensions_ran == pc \notin {"simplify", "_extensions"}

\* _extensions returned, and left for the extension group exactly one
\* property for each of these sub-extension entries
extension_group_is(entries) ==
    /\ hist._extensions # NoSnapshot
    /\ LET out == group_of(hist._extensions,
                      hist._group_by_root.simplified_properties[only(extension_roots)].k)
       IN  /\ Len(out) = Cardinality(entries)
           /\ \A e \in entries :
                  group_has(hist._extensions.heap, out, simplified_key(e), simplified_value(e))

\* C3: for a context with an extension-rooted group in which every extension
\* index has its url and every sub-extension entry its url and a value
\* (valueCoding.code, else valueString), simplify replaces the whole group by
\* exactly one property per entry, with key <extension_name>.<sub_extension_name>
\* and the value located, the coding code preferred; no key starting with
\* extension. is in the final mapping.
C3_extension_group ==
    (extensions_ran /\ Cardinality(extension_roots) = 1 /\ urls_present
        /\ \A e \in sub_extension_entries : has_value(e)) =>
            /\ extension_group_is(sub_extension_entries)
            /\ pc = "returned" =>
                   /\ \A n \in 1..Len(context_properties) :
                          ~startswith(context_properties[n].key, s_extension \o <<Dot>>)
                   /\ \A e \in sub_extension_entries :
                          returned_has(simplified_key(e), simplified_value(e))

\* a returned context with two sub-extensions, one holding both a coding
\* code and a string
C3_witness ==
    /\ pc = "returned"
    /\ Cardinality(extension_roots) = 1 /\ urls_present
    /\ \A e \in sub_extension_entries : has_value(e)
    /\ Cardinality(sub_extension_entries) = 2
    /\ \E e \in sub_extension_entries :
           coding_at(e) \in extension_parts /\ string_at(e) \in extension_parts

\* C4: when a sub-extension entry has a url but neither valueCoding.code nor
\* valueString, _extensions skips it: it emits no property for it, does not
\* fail, and emits the properties of every other entry of the group.
C4_missing_value_skipped ==
    (extensions_ran /\ Cardinality(extension_roots) = 1 /\ urls_present
        /\ \E e \in sub_extension_entries : ~has_value(e)) =>
            /\ pc # "raised"
            /\ extension_group_is({e \in sub_extension_entries : has_value(e)})

\* context.properties and its property objects are as they were on entry
unchanged_since_entry == context_properties = entry.context_properties /\ heap = entry.heap

\* C7: simplify fails when the property mapping is empty, and when an
\* extension or sub-extension index the scan finds keys for has no url
\* property; in both cases nothing is returned, no default is substituted
\* and context.properties is left exactly as it was on entry.
C7_fails_unchanged ==
    /\ (pc # "simplify" /\ Len(entry.context_properties) = 0) =>
           (pc = "raised" /\ error = "AssertionError" /\ unchanged_since_entry)
    /\ (extensions_ran /\ Cardinality(extension_roots) = 1 /\ ~urls_present) =>
           (pc = "raised" /\ error \in {"StopIteration", "AttributeError"} /\ unchanged_since_entry)

\* simplify has raised on a sub-extension without url, its extension and an
\* earlier sub-extension being complete
C7_witness ==
    /\ pc = "raised"
    /\ error = "StopIteration"
    /\ Cardinality(extension_roots) = 1
    /\ \A x \in extension_indices : <<s_extension, x, s_url>> \in extension_parts
    /\ \E e \in sub_extension_entries : url_at(e) \in extension_parts /\ has_value(e)
    /\ \E e \in sub_extension_entries : url_at(e) \notin extension_parts

-----------------------------------------------------------------------------
(* C6 *)

\* the place where root id k first appears in the input mapping
first_appearance(k) ==
    CHOOSE n \in 1..Len(entry.context_properties) :
        /\ entry.heap[entry.context_properties[n].obj].id = k
        /\ \A m \in 1..(n - 1) : entry.heap[entry.context_properties[m].obj].id # k

\* the group of root k comes later than that of root other, the groups
\* ordered by the first appearance of their root id in the input mapping
later_by_appearance(k, other) == first_appearance(k) > first_appearance(other)

\* the same, the group _extensions replaced counting as last
later_when_flattened(k, other) ==
    IF endswith(k, s_extension) /\ ~endswith(other, s_extension) THEN TRUE
    ELSE IF ~endswith(k, s_extension) /\ endswith(other, s_extension) THEN FALSE
    ELSE later_by_appearance(k, other)

\* the final mapping is keyed by flattened_key, one property per key
keyed_by_flattened_key ==
    /\ \A n \in 1..Len(context_properties) :
           heap[context_properties[n].obj].flattened_key = context_properties[n].key
    /\ \A n, m \in 1..Len(context_properties) :
           context_properties[n].key = context_properties[m].key => n = m

\* the root ids of the other groups that end with a property whose
\* flattened_key is the key of entry n of the final mapping
rivals(n) ==
    {hist._codings.simplified_properties[g].k : g \in
        {x \in 1..Len(hist._codings.simplified_properties) :
            /\ hist._codings.simplified_properties[x].k # heap[context_properties[n].obj].id
            /\ \E m \in 1..Len(hist._codings.simplified_properties[x].properties) :
                   heap[hist._codings.simplified_properties[x].properties[m]].flattened_key
                       = context_properties[n].key}}

\* C6 as stated: after simplify returns, context.properties maps each key to a
\* property whose flattened_key is that key, one property per key; of the
\* properties of different groups that end with the same flattened_key, the
\* one kept is that of the group later in the order of first appearance of
\* the root ids in the input mapping.
C6_last_group_wins_as_stated ==
    pc = "returned" =>
        /\ keyed_by_flattened_key
        /\ \A n \in 1..Len(context_properties) :
               \A other \in rivals(n) :
                   later_by_appearance(heap[context_properties[n].obj].id, other)

\* C6, amended: the same, with the group replaced by _extensions (root id
\* ending with extension) counting as the last group whatever its place in
\* the input mapping.
C6_last_group_wins ==
    pc = "returned" =>
        /\ keyed_by_flattened_key
        /\ \A n \in 1..Len(context_properties) :
               \A other \in rivals(n) :
                   later_when_flattened(heap[context_properties[n].obj].id, other)

\* a returned context whose input had the extension group first and then a
\* property race.text of another root: the extension's race.text is kept
C6_witness ==
    /\ pc = "returned"
    /\ endswith(entry.heap[1].id, s_extension)
    /\ \E n \in 1..Len(entry.heap) :
           /\ ~endswith(entry.heap[n].id, s_extension)
           /\ entry.heap[n].flattened_key = <<"r", "a", "c", "e", ".", "t", "e", "x", "t">>
           /\ \E m \in 1..Len(context_properties) :
                  /\ context_properties[m].key = entry.heap[n].flattened_key
                  /\ endswith(heap[context_properties[m].obj].id, s_extension)

====
